---- MODULE Spec2Model ----
(***************************************************************************)
(* PDF outline extraction (app.py, config.py) and its batch driver         *)
(* (process_pdfs.py).                                                      *)
(*                                                                         *)
(* A text is a sequence of one-character strings, so that strip(),         *)
(* lower(), split(), re.match and nltk.edit_distance are computed          *)
(* character by character.  Font sizes, positions and page sizes are       *)
(* integers; every float comparison of the code is written as the          *)
(* equivalent integer comparison (10 * size >= 15 * dominant for           *)
(* size >= dominant * 1.5).                                                *)
(***************************************************************************)
EXTENDS Integers, Sequences, FiniteSets, TLC

(***************************************************************************)
(* Characters and the str methods the code uses.                           *)
(***************************************************************************)
UpperChars ==
    {"A", "B", "C", "D", "E", "F", "G", "H", "I", "J", "K", "L", "M",
     "N", "O", "P", "Q", "R", "S", "T", "U", "V", "W", "X", "Y", "Z"}

LowerChars ==
    {"a", "b", "c", "d", "e", "f", "g", "h", "i", "j", "k", "l", "m",
     "n", "o", "p", "q", "r", "s", "t", "u", "v", "w", "x", "y", "z"}

DigitChars == {"0", "1", "2", "3", "4", "5", "6", "7", "8", "9"}

SpaceChars == {" "}

ToLower ==
    "A" :> "a" @@ "B" :> "b" @@ "C" :> "c" @@ "D" :> "d" @@ "E" :> "e" @@
    "F" :> "f" @@ "G" :> "g" @@ "H" :> "h" @@ "I" :> "i" @@ "J" :> "j" @@
    "K" :> "k" @@ "L" :> "l" @@ "M" :> "m" @@ "N" :> "n" @@ "O" :> "o" @@
    "P" :> "p" @@ "Q" :> "q" @@ "R" :> "r" @@ "S" :> "s" @@ "T" :> "t" @@
    "U" :> "u" @@ "V" :> "v" @@ "W" :> "w" @@ "X" :> "x" @@ "Y" :> "y" @@
    "Z" :> "z"

LowerChar(c) == IF c \in UpperChars THEN ToLower[c] ELSE c

\* str.lower()
lower(s) == [i \in 1..Len(s) |-> LowerChar(s[i])]

\* str.strip(): leading and trailing whitespace removed
strip(s) ==
    LET keep == {i \in 1..Len(s) : s[i] \notin SpaceChars}
    IN  IF keep = {} THEN <<>>
        ELSE LET lo == CHOOSE i \in keep : \A j \in keep : i <= j
                 hi == CHOOSE i \in keep : \A j \in keep : j <= i
             IN  SubSeq(s, lo, hi)

\* str.isdigit(): non-empty and every character a digit
isdigit(s) == Len(s) > 0 /\ \A i \in 1..Len(s) : s[i] \in DigitChars

\* str.isupper(): at least one cased character and no lowercase one
isupper(s) ==
    /\ \E i \in 1..Len(s) : s[i] \in UpperChars
    /\ \A i \in 1..Len(s) : s[i] \notin LowerChars

\* str.isalpha()
isalpha(s) ==
    Len(s) > 0 /\ \A i \in 1..Len(s) : s[i] \in UpperChars \cup LowerChars

\* str.split(): the maximal runs of non-whitespace characters, in order
WordStarts(s) ==
    {i \in 1..Len(s) :
        s[i] \notin SpaceChars /\ (i = 1 \/ s[i - 1] \in SpaceChars)}

WordEnd(s, i) ==
    CHOOSE j \in i..Len(s) :
        /\ \A k \in i..j : s[k] \notin SpaceChars
        /\ (j = Len(s) \/ s[j + 1] \in SpaceChars)

split(s) == {SubSeq(s, i, WordEnd(s, i)) : i \in WordStarts(s)}

WordCount(s) == Cardinality(WordStarts(s))

\* re.match(literal, text, re.IGNORECASE) for a pattern without
\* metacharacters: the text starts with the literal, ignoring case
MatchLiteralPrefix(pattern, text) ==
    /\ Len(text) >= Len(pattern)
    /\ lower(SubSeq(text, 1, Len(pattern))) = lower(pattern)

Min2(a, b) == IF a <= b THEN a ELSE b

Max2(a, b) == IF a >= b THEN a ELSE b

Abs(a) == IF a >= 0 THEN a ELSE 0 - a

(***************************************************************************)
(* nltk.edit_distance(s1, s2) with its defaults (substitution cost 1, no   *)
(* transpositions): the Levenshtein distance, computed row by row.         *)
(***************************************************************************)
RECURSIVE EditRow(_, _, _, _)
\* row i of the table from row i - 1 (prev), built left to right in acc
EditRow(prev, c, t, acc) ==
    LET j == Len(acc)
    IN  IF j > Len(t) THEN acc
        ELSE LET sub == prev[j] + (IF c = t[j] THEN 0 ELSE 1)
                 del == prev[j + 1] + 1
                 ins == acc[j] + 1
             IN  EditRow(prev, c, t, Append(acc, Min2(sub, Min2(del, ins))))

RECURSIVE EditRows(_, _, _, _)
EditRows(s, t, i, prev) ==
    IF i > Len(s) THEN prev
    ELSE EditRows(s, t, i + 1, EditRow(prev, s[i], t, <<prev[1] + 1>>))

edit_distance(s, t) ==
    EditRows(s, t, 1, [j \in 1..(Len(t) + 1) |-> j - 1])[Len(t) + 1]

(***************************************************************************)
(* config.py.  A ratio or multiplier is kept as the integer numerator of   *)
(* the stated fraction.                                                    *)
(***************************************************************************)
\* HEADING_FONT_SIZE_THRESHOLDS
H1_THRESHOLD == 18

H2_THRESHOLD == 14

H3_THRESHOLD == 12

\* min_title_font_size_ratio 0.02 = 20 / 1000
min_title_font_size_ratio_1000 == 20

\* min_heading_font_size_ratio 0.015 = 15 / 1000
min_heading_font_size_ratio_1000 == 15

\* h1_font_size_multiplier 1.5 = 15 / 10
h1_font_size_multiplier_10 == 15

\* h2_font_size_multiplier 1.2 = 12 / 10
h2_font_size_multiplier_10 == 12

\* h3_font_size_multiplier 1.0 = 10 / 10
h3_font_size_multiplier_10 == 10

\* line_height_threshold_ratio 0.8 = 8 / 10
line_height_threshold_ratio_10 == 8

max_heading_chars == 120

min_heading_chars == 3

\* position_weight 0.1, semantic_weight 0.3, font_weight 0.6, in tenths
position_weight_10 == 1

semantic_weight_10 == 3

font_weight_10 == 6

title_search_pages == 5

\* min_title_position_score 0.7 = 7 / 10
min_title_position_score_10 == 7

\* the alternatives of heading_patterns[1]
UnitWords ==
    {<<"C", "h", "a", "p", "t", "e", "r">>,
     <<"S", "e", "c", "t", "i", "o", "n">>,
     <<"P", "a", "r", "t">>,
     <<"A", "s", "s", "i", "g", "n", "m", "e", "n", "t">>,
     <<"E", "x", "e", "r", "c", "i", "s", "e">>,
     <<"L", "a", "b">>,
     <<"P", "r", "a", "c", "t", "i", "c", "a", "l">>,
     <<"E", "x", "p", "e", "r", "i", "m", "e", "n", "t">>}

\* the alternatives of heading_patterns[2]
CanonicalWords ==
    {<<"I", "n", "t", "r", "o", "d", "u", "c", "t", "i", "o", "n">>,
     <<"C", "o", "n", "c", "l", "u", "s", "i", "o", "n">>,
     <<"S", "u", "m", "m", "a", "r", "y">>,
     <<"O", "v", "e", "r", "v", "i", "e", "w">>,
     <<"B", "a", "c", "k", "g", "r", "o", "u", "n", "d">>,
     <<"M", "e", "t", "h", "o", "d", "o", "l", "o", "g", "y">>,
     <<"R", "e", "s", "u", "l", "t", "s">>,
     <<"D", "i", "s", "c", "u", "s", "s", "i", "o", "n">>,
     <<"A", "i", "m">>,
     <<"T", "h", "e", "o", "r", "y">>,
     <<"P", "r", "o", "b", "l", "e", "m", " ", "s", "t", "a", "t", "e", "m", "e", "n", "t">>,
     <<"A", "s", "s", "i", "g", "n", "m", "e", "n", "t", " ", "N", "o">>}

\* config.HEADING_KEYWORDS, the keywords of all three levels
HEADING_KEYWORDS ==
    {<<"c", "h", "a", "p", "t", "e", "r">>,
     <<"p", "a", "r", "t">>,
     <<"s", "e", "c", "t", "i", "o", "n">>,
     <<"i", "n", "t", "r", "o", "d", "u", "c", "t", "i", "o", "n">>,
     <<"c", "o", "n", "c", "l", "u", "s", "i", "o", "n">>,
     <<"s", "u", "m", "m", "a", "r", "y">>,
     <<"r", "e", "f", "e", "r", "e", "n", "c", "e", "s">>,
     <<"t", "h", "e", "o", "r", "y">>,
     <<"m", "e", "t", "h", "o", "d", "o", "l", "o", "g", "y">>,
     <<"r", "e", "s", "u", "l", "t", "s">>,
     <<"d", "i", "s", "c", "u", "s", "s", "i", "o", "n">>}

\* DEFAULT_CONFIG["ignore_patterns"][7..8]
ignore_literals ==
    {<<"P", "U", "N", "E", " ", "I", "N", "S", "T", "I", "T", "U", "T", "E", " ", "O", "F", " ", "C", "O", "M", "P", "U", "T", "E", "R", " ", "T", "E", "C", "H", "N", "O", "L", "O", "G", "Y">>,
     <<"D", "E", "P", "A", "R", "T", "M", "E", "N", "T", " ", "O", "F", " ", "I", "N", "F", "O", "R", "M", "A", "T", "I", "O", "N", " ", "T", "E", "C", "H", "N", "O", "L", "O", "G", "Y">>}

(***************************************************************************)
(* DEFAULT_CONFIG["ignore_patterns"].  Entries 0..6 are written with a     *)
(* doubled backslash inside a raw string, so each of them requires a       *)
(* literal backslash in the text ("^\\d+\\.$" is backslash, d+, backslash, *)
(* any character); on texts without a backslash only the two literal       *)
(* entries can match, at the start of the text and ignoring case.          *)
(***************************************************************************)
MatchesIgnorePattern(text) ==
    \E p \in ignore_literals : MatchLiteralPrefix(p, text)

(***************************************************************************)
(* is_likely_heading                                                       *)
(***************************************************************************)
LetterChars == UpperChars \cup LowerChars

WordChars == LetterChars \cup DigitChars \cup {"_"}

\* text[1..i] matches \d+(\.\d+)*
IsSectionNumber(text, i) ==
    /\ i >= 1 /\ i <= Len(text)
    /\ text[1] \in DigitChars /\ text[i] \in DigitChars
    /\ \A k \in 1..i : text[k] \in DigitChars \cup {"."}
    /\ \A k \in 1..(i - 1) : ~(text[k] = "." /\ text[k + 1] = ".")

\* re.match(r"^\d+(\.\d+)*\s+[A-Z]", text, re.IGNORECASE)
MatchNumberedSection(text) ==
    \E i \in 1..Len(text) :
        /\ IsSectionNumber(text, i)
        /\ \E j \in (i + 1)..(Len(text) - 1) :
            /\ \A k \in (i + 1)..j : text[k] \in SpaceChars
            /\ text[j + 1] \in LetterChars

\* re.match(r"^(Chapter|...|Experiment)\s+\d+\b", text, re.IGNORECASE)
MatchLabeledUnit(text) ==
    \E w \in UnitWords :
        /\ MatchLiteralPrefix(w, text)
        /\ \E j \in (Len(w) + 1)..Len(text) :
            /\ \A m \in (Len(w) + 1)..j : text[m] \in SpaceChars
            /\ \E k \in (j + 1)..Len(text) :
                /\ \A m \in (j + 1)..k : text[m] \in DigitChars
                /\ (k = Len(text) \/ text[k + 1] \notin WordChars)

\* re.match(r"^(Introduction|...|Assignment No)", text, re.IGNORECASE)
MatchCanonicalWord(text) ==
    \E w \in CanonicalWords : MatchLiteralPrefix(w, text)

\* re.match(r"^[A-Z][a-z]+(\s+[A-Z][a-z]+)*$", text) on a stripped text
MatchStrictTitleCase(text) ==
    /\ Len(text) > 0
    /\ \A i \in 1..Len(text) : text[i] \in LetterChars \cup SpaceChars
    /\ \A w \in split(text) :
        /\ Len(w) >= 2
        /\ w[1] \in UpperChars
        /\ \A i \in 2..Len(w) : w[i] \in LowerChars

\* word_tokenize(text.lower()) less the stopwords and the non-alphabetic
\* tokens.  The tokenizer is taken to split at whitespace; no keyword of
\* HEADING_KEYWORDS is an English stopword, so dropping the stopwords
\* never removes a keyword.
filtered_tokens(text) == {w \in split(lower(text)) : isalpha(w)}

is_likely_heading(raw, font_size, dominant_font_size, is_bold_text, is_title_candidate) ==
    LET text == strip(raw)
    IN  IF Len(text) = 0 \/ Len(text) < min_heading_chars THEN FALSE
        ELSE IF Len(text) > max_heading_chars THEN FALSE
        ELSE IF MatchesIgnorePattern(text) THEN FALSE
        ELSE IF \/ MatchNumberedSection(text)
                \/ MatchLabeledUnit(text)
                \/ MatchCanonicalWord(text) THEN TRUE
        ELSE IF /\ is_title_candidate
                /\ \/ isupper(text) /\ WordCount(text) <= 5
                   \/ MatchStrictTitleCase(text) /\ WordCount(text) <= 7
             THEN TRUE
        ELSE IF isupper(text) /\ WordCount(text) <= 4 /\ Len(text) > 5 THEN TRUE
        ELSE IF /\ WordCount(text) >= 1 /\ WordCount(text) <= 6
                /\ \A w \in split(text) : w[1] \in UpperChars
                /\ ~isupper(text) THEN TRUE
        ELSE IF filtered_tokens(text) \cap HEADING_KEYWORDS # {} THEN TRUE
        ELSE IF /\ dominant_font_size > 0
                /\ 10 * font_size > 12 * dominant_font_size
                /\ is_bold_text THEN TRUE
        ELSE FALSE

(***************************************************************************)
(* The decoded document, as fitz presents it: fault says whether           *)
(* fitz.open or a later page read raises, meta is doc.metadata, pages the  *)
(* page rectangles, spans the text spans of all pages in reading order     *)
(* of the decoder (page by page), each with its 1-based page, its size,    *)
(* its bold flag and its bbox (x0, y_pos, x1).                             *)
(*                                                                         *)
(* Positions lie on a grid that keeps the scores integral: a position      *)
(* score is kept as its numerator over PS_DEN.                             *)
(***************************************************************************)
\* every page height of the model (800, 1200) divides HEIGHT_LCM
HEIGHT_LCM == 3 * 800

\* every x0 + x1 and every page width is a multiple of width / WIDTH_GRID
WIDTH_GRID == 2 * 3

PS_DEN == 10 * WIDTH_GRID * HEIGHT_LCM

NumPages(d) == Len(d.pages)

SpansOfPage(d, p) == {i \in 1..Len(d.spans) : d.spans[i].page = p}

RECURSIVE SeqOfSet(_, _)
\* the members of a set of indices in increasing order
SeqOfSet(S, acc) ==
    IF S = {} THEN acc
    ELSE LET m == CHOOSE i \in S : \A j \in S : i <= j
         IN  SeqOfSet(S \ {m}, Append(acc, m))

\* Counter(font_sizes).most_common(1)[0][0]: the size with the highest
\* count, the first one encountered among equals; 0 for a page without span
dominant_font_size(d, p) ==
    LET idx == SpansOfPage(d, p)
        count(i) == Cardinality({j \in idx : d.spans[j].size = d.spans[i].size})
    IN  IF idx = {} THEN 0
        ELSE LET best == CHOOSE i \in idx :
                        /\ \A j \in idx : count(j) <= count(i)
                        /\ \A j \in idx : count(j) = count(i) => i <= j
             IN  d.spans[best].size

page_dominant_font_sizes_of(d) ==
    [p \in 1..NumPages(d) |-> dominant_font_size(d, p)]

JunkTitle == <<"g", "d", "s", "g", "s", "d", "f", "g">>

\* metadata_title_valid with the blacklist tested on the untrimmed title
metadata_title_valid_Untrimmed(d) ==
    /\ d.meta.present
    /\ Len(d.meta.title) > 0
    /\ d.meta.title \notin {JunkTitle, <<>>}

\* doc.metadata and doc.metadata.get("title") and
\* doc.metadata.get("title").strip() not in ["gdsgsdfg", ""]
metadata_title_valid(d) ==
    /\ d.meta.present
    /\ Len(d.meta.title) > 0
    /\ strip(d.meta.title) \notin {JunkTitle, <<>>}

(***************************************************************************)
(* Title extraction (app.py 131-205)                                       *)
(***************************************************************************)
\* position_score = center_score * 0.7 + top_score * 0.3, over PS_DEN
position_score(d, s) ==
    LET W == d.pages[s.page].width
        H == d.pages[s.page].height
        center == ((W - Abs(s.x0 + s.x1 - W)) * WIDTH_GRID) \div W
        top == (H - s.y_pos) * (HEIGHT_LCM \div H)
    IN  7 * center * HEIGHT_LCM + 3 * top * WIDTH_GRID

is_title_candidate_span(d, dom, s) ==
    /\ 1000 * s.size > min_title_font_size_ratio_1000 * d.pages[s.page].height
    /\ Len(strip(s.text)) > min_heading_chars
    /\ ~isdigit(strip(s.text))
    /\ 10 * position_score(d, s) > min_title_position_score_10 * PS_DEN
    /\ is_likely_heading(strip(s.text), s.size, dom[s.page], s.bold, TRUE)

\* the pages the title scan reads
TitlePages(d) == 1..Min2(title_search_pages, NumPages(d))

\* title_candidates in the order appended; span is the ghost index of the
\* span a candidate was made from
title_candidates_of(d, dom) ==
    LET idx == {i \in 1..Len(d.spans) :
                    /\ d.spans[i].page \in TitlePages(d)
                    /\ is_title_candidate_span(d, dom, d.spans[i])}
        order == SeqOfSet(idx, <<>>)
    IN  [k \in 1..Len(order) |->
            [text |-> strip(d.spans[order[k]].text),
             font_size |-> d.spans[order[k]].size,
             position_score |-> position_score(d, d.spans[order[k]]),
             page |-> d.spans[order[k]].page,
             is_bold |-> d.spans[order[k]].bold,
             y_pos |-> d.spans[order[k]].y_pos,
             span |-> order[k]]]

\* the key (font_size, position_score, is_bold) of a is greater than b's
TitleKeyGreater(a, b) ==
    \/ a.font_size > b.font_size
    \/ /\ a.font_size = b.font_size
       /\ \/ a.position_score > b.position_score
          \/ /\ a.position_score = b.position_score
             /\ a.is_bold /\ ~b.is_bold

RECURSIVE InsertTitleCandidate(_, _)
\* x put before the first candidate whose key is less than the key of x
InsertTitleCandidate(x, sorted) ==
    IF sorted = <<>> THEN <<x>>
    ELSE IF TitleKeyGreater(x, Head(sorted)) THEN <<x>> \o sorted
    ELSE <<Head(sorted)>> \o InsertTitleCandidate(x, Tail(sorted))

RECURSIVE SortTitleCandidates(_, _)
\* list.sort: stable, candidates with equal keys keep their order
SortTitleCandidates(todo, sorted) ==
    IF todo = <<>> THEN sorted
    ELSE SortTitleCandidates(Tail(todo), InsertTitleCandidate(Head(todo), sorted))

\* title_candidates.sort(key=..., reverse=True)
sort_title_candidates(cands) == SortTitleCandidates(cands, <<>>)

\* is_duplicate_title with the vertical distance measured against the
\* font size of the kept candidate
is_duplicate_title_ExistingSize(candidate, existing) ==
    /\ candidate.page = existing.page
    /\ 10 * Abs(candidate.y_pos - existing.y_pos)
          < line_height_threshold_ratio_10 * existing.font_size
    /\ 10 * edit_distance(lower(candidate.text), lower(existing.text))
          < 3 * Max2(Len(candidate.text), Len(existing.text))

\* the test of lines 183-185
is_duplicate_title(candidate, existing) ==
    /\ candidate.page = existing.page
    /\ 10 * Abs(candidate.y_pos - existing.y_pos)
          < line_height_threshold_ratio_10 * candidate.font_size
    /\ 10 * edit_distance(lower(candidate.text), lower(existing.text))
          < 3 * Max2(Len(candidate.text), Len(existing.text))

RECURSIVE filter_title_candidates(_, _)
filter_title_candidates(todo, filtered_candidates) ==
    IF todo = <<>> THEN filtered_candidates
    ELSE LET candidate == Head(todo)
             dup == \E k \in 1..Len(filtered_candidates) :
                        is_duplicate_title(candidate, filtered_candidates[k])
         IN  filter_title_candidates(Tail(todo),
                 IF dup THEN filtered_candidates
                 ELSE Append(filtered_candidates, candidate))

\* the last span the title scan iterated over: the variable span that line
\* 196 reads after the loops
LastScannedSpan(d) ==
    LET idx == {i \in 1..Len(d.spans) : d.spans[i].page \in TitlePages(d)}
    IN  CHOOSE i \in idx : \A j \in idx : j <= i

\* total_score of a filtered candidate, times 200 * PS_DEN * max_size
total_score(d, dom, candidate, max_size) ==
    LET bold_score_10 == IF candidate.is_bold THEN 12 ELSE 10
        semantic_score_2 ==
            IF is_likely_heading(candidate.text, candidate.font_size,
                                 dom[candidate.page],
                                 d.spans[LastScannedSpan(d)].bold, TRUE)
            THEN 3 ELSE 2
    IN  ( font_weight_10 * candidate.font_size * 2 * PS_DEN
        + position_weight_10 * candidate.position_score * 2 * max_size
        + semantic_weight_10 * semantic_score_2 * PS_DEN * max_size )
        * bold_score_10

MaxFontSize(cands) ==
    CHOOSE m \in {cands[k].font_size : k \in 1..Len(cands)} :
        \A k \in 1..Len(cands) : cands[k].font_size <= m

\* max(filtered_candidates, key=total_score): the first of the greatest
best_candidate(d, dom, filtered) ==
    LET ms == MaxFontSize(filtered)
        sc(k) == total_score(d, dom, filtered[k], ms)
        best == CHOOSE k \in 1..Len(filtered) :
                    /\ \A j \in 1..Len(filtered) : sc(j) <= sc(k)
                    /\ \A j \in 1..Len(filtered) : sc(j) = sc(k) => k <= j
    IN  filtered[best]

NoTitle == [text |-> <<>>, span |-> 0]

\* the heuristic title: its text and the span it was taken from
heuristic_title(d, dom) ==
    LET cands == title_candidates_of(d, dom)
        filtered == filter_title_candidates(sort_title_candidates(cands), <<>>)
    IN  IF cands = <<>> THEN NoTitle
        ELSE LET b == best_candidate(d, dom, filtered)
             IN  [text |-> b.text, span |-> b.span]

\* extract_title with the heuristic scan tried before the metadata
extract_title_HeuristicFirst(d, dom) ==
    IF heuristic_title(d, dom).span # 0 THEN heuristic_title(d, dom)
    ELSE IF metadata_title_valid(d)
    THEN [text |-> strip(d.meta.title), span |-> 0]
    ELSE NoTitle

\* lines 126-205
extract_title(d, dom) ==
    IF metadata_title_valid(d)
    THEN [text |-> strip(d.meta.title), span |-> 0]
    ELSE heuristic_title(d, dom)

(***************************************************************************)
(* Heading extraction (app.py 207-316)                                     *)
(***************************************************************************)
\* lines 267-273: font_score from the multipliers of the dominant size
relative_font_score(size, dominant_size) ==
    IF dominant_size <= 0 THEN 0
    ELSE IF 10 * size >= dominant_size * h1_font_size_multiplier_10 THEN 3
    ELSE IF 10 * size >= dominant_size * h2_font_size_multiplier_10 THEN 2
    ELSE IF 10 * size >= dominant_size * h3_font_size_multiplier_10 THEN 1
    ELSE 0

\* lines 277-282: font_score from the absolute thresholds
absolute_font_score(size) ==
    IF size >= H1_THRESHOLD THEN 3
    ELSE IF size >= H2_THRESHOLD THEN 2
    ELSE IF size >= H3_THRESHOLD THEN 1
    ELSE 0

\* lines 264-282.  page_height is the variable left by the collecting
\* loop of lines 210-214.
font_score_of(size, dominant_size, page_height) ==
    LET rel == relative_font_score(size, dominant_size)
    IN  IF /\ rel = 0
           /\ 1000 * size >= min_heading_font_size_ratio_1000 * page_height
        THEN absolute_font_score(size)
        ELSE rel

\* lines 293-307
level_of(size, dominant_size) ==
    IF dominant_size > 0
    THEN IF 10 * size >= dominant_size * h1_font_size_multiplier_10 THEN "H1"
         ELSE IF 10 * size >= dominant_size * h2_font_size_multiplier_10 THEN "H2"
         ELSE "H3"
    ELSE IF size >= H1_THRESHOLD THEN "H1"
         ELSE IF size >= H2_THRESHOLD THEN "H2"
         ELSE "H3"

\* passes_basic_filters without the ignore patterns of line 253
passes_basic_filters_NoIgnore(text) ==
    /\ Len(text) > 0
    /\ Len(text) >= min_heading_chars
    /\ ~isdigit(text)
    /\ Len(text) <= max_heading_chars

\* lines 252-261: the filters a span passes before it is scored
passes_basic_filters(text) ==
    /\ ~MatchesIgnorePattern(text)
    /\ Len(text) > 0
    /\ Len(text) >= min_heading_chars
    /\ ~isdigit(text)
    /\ Len(text) <= max_heading_chars

\* lines 225-226
is_left_aligned(d, s) == 10 * s.x0 < 2 * d.pages[s.page].width

is_center_aligned(d, s) ==
    10 * Abs(s.x0 + s.x1 - d.pages[s.page].width) < 2 * d.pages[s.page].width

\* the page_height lines 276 and 287 read: the height of the last page
last_page_height(d) == d.pages[NumPages(d)].height

is_heading_span(d, dom, s) ==
    /\ passes_basic_filters(strip(s.text))
    /\ font_score_of(s.size, dom[s.page], last_page_height(d)) > 0

\* total_score (line 290), times 1000
heading_score(d, dom, s) ==
    font_score_of(s.size, dom[s.page], last_page_height(d))
    * (IF s.bold THEN 15 ELSE 10)
    * (IF is_likely_heading(strip(s.text), s.size, dom[s.page], s.bold, FALSE)
       THEN 13 ELSE 10)
    * (IF is_left_aligned(d, s) \/ is_center_aligned(d, s) THEN 12 ELSE 10)

\* heading_candidates in the order appended (lines 245-316); font_score
\* and span (the index of the span) are kept beside the fields of the code
heading_candidates_of(d, dom) ==
    LET idx == {i \in 1..Len(d.spans) : is_heading_span(d, dom, d.spans[i])}
        order == SeqOfSet(idx, <<>>)
    IN  [k \in 1..Len(order) |->
            LET s == d.spans[order[k]]
            IN  [level |-> level_of(s.size, dom[s.page]),
                 text |-> strip(s.text),
                 page |-> s.page,
                 score |-> heading_score(d, dom, s),
                 font_size |-> s.size,
                 y_pos |-> s.y_pos,
                 font_score |-> font_score_of(s.size, dom[s.page],
                                              last_page_height(d)),
                 span |-> order[k]]]

\* HeadingKeyLess with the page left out of the sort key
HeadingKeyLess_PositionOnly(a, b) == a.y_pos < b.y_pos

\* the key (page, y_pos) of a is less than b's
HeadingKeyLess(a, b) ==
    a.page < b.page \/ (a.page = b.page /\ a.y_pos < b.y_pos)

RECURSIVE InsertHeadingCandidate(_, _)
\* x put before the first candidate whose key is greater than the key of x
InsertHeadingCandidate(x, sorted) ==
    IF sorted = <<>> THEN <<x>>
    ELSE IF HeadingKeyLess(x, Head(sorted)) THEN <<x>> \o sorted
    ELSE <<Head(sorted)>> \o InsertHeadingCandidate(x, Tail(sorted))

RECURSIVE SortHeadingCandidates(_, _)
\* list.sort: stable, candidates with equal keys keep their order
SortHeadingCandidates(todo, sorted) ==
    IF todo = <<>> THEN sorted
    ELSE SortHeadingCandidates(Tail(todo),
                               InsertHeadingCandidate(Head(todo), sorted))

\* heading_candidates.sort(key=lambda x: (x["page"], x["y_pos"]))
sort_heading_candidates(cands) == SortHeadingCandidates(cands, <<>>)

(***************************************************************************)
(* Outline assembly (app.py 321-347)                                       *)
(***************************************************************************)
\* round(y / 10) of Python 3: to the nearest integer, a half to the even one
round_tenth(y) ==
    LET q == y \div 10
        r == y % 10
    IN  IF r < 5 THEN q
        ELSE IF r > 5 THEN q + 1
        ELSE IF q % 2 = 0 THEN q ELSE q + 1

\* line 328
dedup_key(candidate) ==
    <<lower(candidate.text), candidate.page, round_tenth(candidate.y_pos)>>

\* lines 336-337: the level of the existing entry outranks the candidate's
level_dominates(existing_level, candidate_level) ==
    \/ existing_level = "H1" /\ candidate_level # "H1"
    \/ existing_level = "H2" /\ candidate_level = "H3"

\* lines 334-335: same page and edit distance below 0.2 of the longer text
similar_text(a, b) ==
    5 * edit_distance(lower(a), lower(b)) < Max2(Len(a), Len(b))

\* lines 332-339
is_redundant(outline, candidate) ==
    \E k \in 1..Len(outline) :
        /\ outline[k].page = candidate.page
        /\ similar_text(outline[k].text, candidate.text)
        /\ level_dominates(outline[k].level, candidate.level)

\* assemble_step without the test of the seen keys of line 330
assemble_step_NoSeenTest(st, candidate) ==
    IF ~is_redundant(st.final_outline, candidate)
    THEN [final_outline |->
              Append(st.final_outline,
                     [level |-> candidate.level,
                      text |-> candidate.text,
                      page |-> candidate.page]),
          outline_src |-> Append(st.outline_src, candidate),
          seen_entries |-> st.seen_entries \cup {dedup_key(candidate)}]
    ELSE st

\* the body of the loop of lines 325-347 on the lists as they stand
assemble_step(st, candidate) ==
    IF /\ dedup_key(candidate) \notin st.seen_entries
       /\ ~is_redundant(st.final_outline, candidate)
    THEN [final_outline |->
              Append(st.final_outline,
                     [level |-> candidate.level,
                      text |-> candidate.text,
                      page |-> candidate.page]),
          outline_src |-> Append(st.outline_src, candidate),
          seen_entries |-> st.seen_entries \cup {dedup_key(candidate)}]
    ELSE st

RECURSIVE assemble(_, _)
assemble(st, todo) ==
    IF todo = <<>> THEN st
    ELSE assemble(assemble_step(st, Head(todo)), Tail(todo))

\* the value extract_outline returns for a document it can decode
extract_outline(d) ==
    LET dom == page_dominant_font_sizes_of(d)
        cands == sort_heading_candidates(heading_candidates_of(d, dom))
        st == assemble([final_outline |-> <<>>, outline_src |-> <<>>,
                        seen_entries |-> {}], cands)
    IN  [status |-> "returned",
         title |-> extract_title(d, dom).text,
         outline |-> st.final_outline]

(***************************************************************************)
(* extract_outline as a state machine: one call on one document, and the   *)
(* batch driver that calls it.                                             *)
(***************************************************************************)
VARIABLES
    doc,                        \* the file that fitz.open is given
    pc,                         \* where the call stands
    page_dominant_font_sizes,   \* page -> dominant size (1-based here)
    title,
    title_span,                 \* ghost: the span the title was taken from
    heading_candidates,         \* after line 319: sorted
    next_candidate,             \* the position of the loop of line 325
    final_outline,
    outline_src,                \* ghost: the candidate each entry came from
    seen_entries,
    result                      \* what the call returned or raised

\* process_pdfs.py: main and process_single_pdf
VARIABLES
    input_exists,               \* /app/input exists
    pdf_files,                  \* find_pdf_files(input_dir)
    main_pc,                    \* where main stands
    file_index,                 \* i of the loop of line 211
    results,
    ps_pc,                      \* where process_single_pdf stands
    alarm,                      \* a SIGALRM is pending
    ps_result,                  \* result of process_single_pdf
    error_msg,
    output,                     \* the JSON file written for each document
    main_ret,                   \* the value main returned, -1 before
    exit_status                 \* the status of sys.exit, -1 before

core_vars ==
    <<doc, pc, page_dominant_font_sizes, title, title_span,
      heading_candidates, next_candidate, final_outline, outline_src,
      seen_entries, result>>

batch_vars ==
    <<input_exists, pdf_files, main_pc, file_index, results, ps_pc, alarm,
      ps_result, error_msg, output, main_ret, exit_status>>

vars == <<core_vars, batch_vars>>

NoResult == [status |-> "none", title |-> <<>>, outline |-> <<>>]

\* line 99: fitz.open raises on a file it cannot decode
Open ==
    /\ pc = "open"
    /\ IF doc.fault = "open"
       THEN /\ pc' = "raised"
            /\ result' = [NoResult EXCEPT !.status = "raised"]
       ELSE /\ pc' = "profile"
            /\ UNCHANGED result
    /\ UNCHANGED <<doc, page_dominant_font_sizes, title, title_span,
                   heading_candidates, next_candidate, final_outline,
                   outline_src, seen_entries>>
    /\ UNCHANGED batch_vars

\* lines 111-124; page.get_text raises on a page it cannot read
Profile ==
    /\ pc = "profile"
    /\ IF doc.fault = "page"
       THEN /\ pc' = "raised"
            /\ result' = [NoResult EXCEPT !.status = "raised"]
            /\ UNCHANGED page_dominant_font_sizes
       ELSE /\ pc' = "title"
            /\ page_dominant_font_sizes' = page_dominant_font_sizes_of(doc)
            /\ UNCHANGED result
    /\ UNCHANGED <<doc, title, title_span, heading_candidates,
                   next_candidate, final_outline, outline_src, seen_entries>>
    /\ UNCHANGED batch_vars

\* lines 126-205
ExtractTitle ==
    /\ pc = "title"
    /\ LET t == extract_title(doc, page_dominant_font_sizes)
       IN  /\ title' = t.text
           /\ title_span' = t.span
    /\ pc' = "headings"
    /\ UNCHANGED <<doc, page_dominant_font_sizes, heading_candidates,
                   next_candidate, final_outline, outline_src, seen_entries,
                   result>>
    /\ UNCHANGED batch_vars

\* lines 207-323: the spans are collected and scored, the candidates sorted
ExtractHeadings ==
    /\ pc = "headings"
    /\ heading_candidates' =
           sort_heading_candidates(
               heading_candidates_of(doc, page_dominant_font_sizes))
    /\ next_candidate' = 1
    /\ final_outline' = <<>>
    /\ outline_src' = <<>>
    /\ seen_entries' = {}
    /\ pc' = "assemble"
    /\ UNCHANGED <<doc, page_dominant_font_sizes, title, title_span, result>>
    /\ UNCHANGED batch_vars

\* one iteration of the loop of lines 325-347
AssembleStep ==
    /\ pc = "assemble"
    /\ next_candidate <= Len(heading_candidates)
    /\ LET after == assemble_step(
                        [final_outline |-> final_outline,
                         outline_src |-> outline_src,
                         seen_entries |-> seen_entries],
                        heading_candidates[next_candidate])
       IN  /\ final_outline' = after.final_outline
           /\ outline_src' = after.outline_src
           /\ seen_entries' = after.seen_entries
    /\ next_candidate' = next_candidate + 1
    /\ UNCHANGED <<doc, pc, page_dominant_font_sizes, title, title_span,
                   heading_candidates, result>>
    /\ UNCHANGED batch_vars

\* lines 349-350
Return ==
    /\ pc = "assemble"
    /\ next_candidate > Len(heading_candidates)
    /\ pc' = "done"
    /\ result' = [status |-> "returned", title |-> title,
                  outline |-> final_outline]
    /\ UNCHANGED <<doc, page_dominant_font_sizes, title, title_span,
                   heading_candidates, next_candidate, final_outline,
                   outline_src, seen_entries>>
    /\ UNCHANGED batch_vars

ExtractNext ==
    \/ Open
    \/ Profile
    \/ ExtractTitle
    \/ ExtractHeadings
    \/ AssembleStep
    \/ Return

(***************************************************************************)
(* The documents of the model.                                             *)
(***************************************************************************)
\* the most spans a document holds
MaxSpans == 3

\* the most pages a document holds
MaxPages == 2

PAGE_WIDTH == 6 * 100

NoMeta == [present |-> FALSE, title |-> <<>>]

Meta(t) == [present |-> TRUE, title |-> t]

\* a file fitz.open raises on, and one whose first page cannot be read
UndecodableDoc ==
    [fault |-> "open", meta |-> NoMeta, pages |-> <<>>, spans |-> <<>>]

CorruptPageDoc ==
    [fault |-> "page", meta |-> NoMeta,
     pages |-> <<[height |-> 800, width |-> PAGE_WIDTH]>>, spans |-> <<>>]

\* the spans of a document over the given values; a style is the tuple
\* (size, bold, x0, x1)
SpanSet(np, TS, STS, YS) ==
    {[text |-> t, size |-> st[1], bold |-> st[2], page |-> p,
      x0 |-> st[3], x1 |-> st[4], y_pos |-> y] :
        t \in TS, st \in STS, p \in 1..np, y \in YS}

PageOrdered(spans) ==
    \A i \in 1..Len(spans) : \A j \in i..Len(spans) :
        spans[i].page <= spans[j].page

\* doc is a decodable document with up to MaxPages pages of the heights HS
\* and up to MaxSpans spans over the given values
IsDecodableDoc(MS, HS, TS, STS, YS) ==
    \E np \in 0..MaxPages : \E n \in 0..(IF np = 0 THEN 0 ELSE MaxSpans) :
        \E m \in MS :
        \E pg \in [1..np -> {[height |-> h, width |-> PAGE_WIDTH] : h \in HS}] :
        \E sp \in [1..n -> SpanSet(np, TS, STS, YS)] :
            /\ PageOrdered(sp)
            /\ doc = [fault |-> "none", meta |-> m, pages |-> pg, spans |-> sp]

\* the state at the entry of extract_outline
ExtractEntry ==
    /\ pc = "open"
    /\ page_dominant_font_sizes = <<>>
    /\ title = <<>>
    /\ title_span = 0
    /\ heading_candidates = <<>>
    /\ next_candidate = 1
    /\ final_outline = <<>>
    /\ outline_src = <<>>
    /\ seen_entries = {}
    /\ result = NoResult

\* extract_outline called on its own: the batch driver stands still
BatchIdle ==
    /\ input_exists = TRUE
    /\ pdf_files = <<>>
    /\ main_pc = "none"
    /\ file_index = 1
    /\ results = <<>>
    /\ ps_pc = "none"
    /\ alarm = FALSE
    /\ ps_result = NoResult
    /\ error_msg = "none"
    /\ output = <<>>
    /\ main_ret = -1
    /\ exit_status = -1

\* a style: plain or bold text of a size, centred or at the left edge
Plain(size) == <<size, FALSE, 200, 400>>

Bold(size) == <<size, TRUE, 200, 400>>

PlainLeft(size) == <<size, FALSE, 0, 200>>

T_Introduction ==
    <<"I", "n", "t", "r", "o", "d", "u", "c", "t", "i", "o", "n">>
T_INTRODUCTION ==
    <<"I", "N", "T", "R", "O", "D", "U", "C", "T", "I", "O", "N">>
T_Introductions ==
    <<"I", "n", "t", "r", "o", "d", "u", "c", "t", "i", "o", "n", "s">>
T_PUNE ==
    <<"P", "U", "N", "E", " ", "I", "N", "S", "T", "I", "T", "U", "T", "E", " ", "O", "F", " ", "C", "O", "M", "P", "U", "T", "E", "R", " ", "T", "E", "C", "H", "N", "O", "L", "O", "G", "Y">>
T_Report ==
    <<" ", " ", "P", "r", "o", "j", "e", "c", "t", " ", "R", "e", "p", "o", "r", "t", " ">>
T_digits ==
    <<"2", "0", "2", "4">>

\* headings of three sizes on pages 800 high, jittered vertical positions
Init ==
    /\ \/ IsDecodableDoc({NoMeta}, {800}, {T_Introduction, T_INTRODUCTION},
                          {Plain(10), Plain(12), Plain(15)}, {100, 105, 106})
       \/ doc \in {UndecodableDoc, CorruptPageDoc}
    /\ ExtractEntry
    /\ BatchIdle

Next == ExtractNext

Spec == Init /\ [][Next]_vars

\* one large bold heading and plain text, under every kind of metadata title
MetaTitles ==
    {NoMeta, Meta(T_Report), Meta(<<" ">> \o JunkTitle), Meta(<<" ", " ">>)}

MetaInit ==
    /\ \/ IsDecodableDoc(MetaTitles, {800}, {T_Introduction},
                          {Plain(12), Bold(24)}, {100, 105})
       \/ doc \in {UndecodableDoc, CorruptPageDoc}
    /\ ExtractEntry
    /\ BatchIdle

MetaSpec == MetaInit /\ [][Next]_vars

\* the boilerplate line of the ignore patterns beside a real heading, each
\* bold at size 24 and centred or plain at size 18 and at the left edge
IgnoreInit ==
    /\ \/ IsDecodableDoc({NoMeta}, {800}, {T_PUNE, T_Introduction},
                          {Bold(24), PlainLeft(18)}, {100})
       \/ doc \in {UndecodableDoc, CorruptPageDoc}
    /\ ExtractEntry
    /\ BatchIdle

IgnoreSpec == IgnoreInit /\ [][Next]_vars

\* one heading text in two sizes at jittered positions, in any span order
OrderInit ==
    /\ \/ IsDecodableDoc({NoMeta}, {800}, {T_Introduction},
                          {Plain(12), Plain(15)}, {100, 105, 106})
       \/ doc \in {UndecodableDoc, CorruptPageDoc}
    /\ ExtractEntry
    /\ BatchIdle

OrderSpec == OrderInit /\ [][Next]_vars

\* one heading text in three sizes, the smaller ones below the dominant
\* size of their page, on pages of two heights
FallbackInit ==
    /\ \/ IsDecodableDoc({NoMeta}, {800, 1200}, {T_Introduction},
                          {Plain(12), Plain(15), Plain(18)}, {100})
       \/ doc \in {UndecodableDoc, CorruptPageDoc}
    /\ ExtractEntry
    /\ BatchIdle

FallbackSpec == FallbackInit /\ [][Next]_vars

\* title candidates of one text, bold at size 24 at y = 100 and y = 116 and
\* plain at size 18 at y = 116, or of two different texts at one position
TitleInit ==
    /\ \/ /\ IsDecodableDoc({NoMeta}, {800}, {T_Introduction},
                             {Bold(24), Plain(18)}, {100, 116})
          /\ \A i \in 1..Len(doc.spans) :
                doc.spans[i].size = 18 => doc.spans[i].y_pos = 116
       \/ IsDecodableDoc({NoMeta}, {800}, {T_Introduction, T_Report},
                          {Bold(24)}, {100})
       \/ doc \in {UndecodableDoc, CorruptPageDoc}
    /\ ExtractEntry
    /\ BatchIdle

TitleSpec == TitleInit /\ [][Next]_vars

(***************************************************************************)
(* process_pdfs.py: main, process_single_pdf and the alarm signal          *)
(***************************************************************************)
\* estimate_pages (lines 57-66)
estimate_pages(d) == IF d.fault = "open" THEN 50 ELSE NumPages(d)

\* int(calculate_timeout(page_count)) (lines 68-73, 83): the whole seconds
\* of min(max(10, page_count / 50 * 10) * 1.5, 30)
timeout_seconds(page_count) ==
    Min2((Max2(100, 2 * page_count) * 15) \div 10, 300) \div 10

NoOutput == [written |-> FALSE, title |-> <<>>, outline |-> <<>>, error |-> "none"]

\* lines 194-205: validate_directories exits with 1 without /app/input;
\* without a PDF main returns 0
MainStart ==
    /\ main_pc = "start"
    /\ IF ~input_exists
       THEN /\ main_pc' = "exited"
            /\ exit_status' = 1
            /\ UNCHANGED main_ret
       ELSE IF pdf_files = <<>>
       THEN /\ main_pc' = "returned"
            /\ main_ret' = 0
            /\ exit_status' = 0
       ELSE /\ main_pc' = "loop"
            /\ UNCHANGED <<main_ret, exit_status>>
    /\ UNCHANGED <<input_exists, pdf_files, file_index, results, ps_pc, alarm,
                   ps_result, error_msg, output>>
    /\ UNCHANGED core_vars

\* lines 211-230 and 77-79: main calls process_single_pdf for the next file
StartFile ==
    /\ main_pc = "loop"
    /\ ps_pc = "idle"
    /\ file_index <= Len(pdf_files)
    /\ ps_pc' = "setup"
    /\ ps_result' = NoResult
    /\ error_msg' = "none"
    /\ UNCHANGED <<input_exists, pdf_files, main_pc, file_index, results,
                   alarm, output, main_ret, exit_status>>
    /\ UNCHANGED core_vars

\* line 83 (setup_timeout) and line 88, the call of extract_outline
SetupTimeout ==
    /\ ps_pc = "setup"
    /\ alarm' = (timeout_seconds(estimate_pages(pdf_files[file_index])) > 0)
    /\ ps_pc' = "extract"
    /\ doc' = pdf_files[file_index]
    /\ pc' = "open"
    /\ page_dominant_font_sizes' = <<>>
    /\ title' = <<>>
    /\ title_span' = 0
    /\ heading_candidates' = <<>>
    /\ next_candidate' = 1
    /\ final_outline' = <<>>
    /\ outline_src' = <<>>
    /\ seen_entries' = {}
    /\ result' = NoResult
    /\ UNCHANGED <<input_exists, pdf_files, main_pc, file_index, results,
                   ps_result, error_msg, output, main_ret, exit_status>>

\* line 88: extract_outline has returned and result is assigned
ExtractReturned ==
    /\ ps_pc = "extract"
    /\ pc = "done"
    /\ ps_result' = result
    /\ ps_pc' = "clear"
    /\ pc' = "idle"
    /\ UNCHANGED <<doc, page_dominant_font_sizes, title, title_span,
                   heading_candidates, next_candidate, final_outline,
                   outline_src, seen_entries, result>>
    /\ UNCHANGED <<input_exists, pdf_files, main_pc, file_index, results,
                   alarm, error_msg, output, main_ret, exit_status>>

\* line 88 raises what extract_outline raised; line 120 catches it
ExtractRaised ==
    /\ ps_pc = "extract"
    /\ pc = "raised"
    /\ ps_pc' = "except_exception"
    /\ pc' = "idle"
    /\ UNCHANGED <<doc, page_dominant_font_sizes, title, title_span,
                   heading_candidates, next_candidate, final_outline,
                   outline_src, seen_entries, result>>
    /\ UNCHANGED <<input_exists, pdf_files, main_pc, file_index, results,
                   alarm, ps_result, error_msg, output, main_ret, exit_status>>

\* line 91
ClearTimeout ==
    /\ ps_pc = "clear"
    /\ alarm' = FALSE
    /\ ps_pc' = "save"
    /\ UNCHANGED <<input_exists, pdf_files, main_pc, file_index, results,
                   ps_result, error_msg, output, main_ret, exit_status>>
    /\ UNCHANGED core_vars

\* lines 93-112 and 232-239: the result, a dict with a title and a list, is
\* written; process_single_pdf returns (True, time, None); main records it
SaveResult ==
    /\ ps_pc = "save"
    /\ output' = [output EXCEPT ![file_index] =
                     [written |-> TRUE, title |-> ps_result.title,
                      outline |-> ps_result.outline, error |-> "none"]]
    /\ results' = Append(results, [success |-> TRUE, error |-> "none"])
    /\ file_index' = file_index + 1
    /\ ps_pc' = "idle"
    /\ UNCHANGED <<input_exists, pdf_files, main_pc, alarm, ps_result,
                   error_msg, main_ret, exit_status>>
    /\ UNCHANGED core_vars

\* the alarm goes off and timeout_handler (lines 20-22) raises TimeoutError
\* where the program stands: inside the try block line 114 catches it;
\* inside the handler of line 120, before its clear_timeout, nothing
\* catches it in process_single_pdf nor in main, and lines 267-269 exit
\* with 1
TimeoutSignal ==
    /\ alarm
    /\ ps_pc \in {"extract", "clear", "except_exception"}
    /\ alarm' = FALSE
    /\ IF ps_pc = "except_exception"
       THEN /\ ps_pc' = "escaped"
            /\ main_pc' = "aborted"
            /\ exit_status' = 1
            /\ UNCHANGED pc
       ELSE /\ ps_pc' = "except_timeout"
            /\ pc' = IF ps_pc = "extract" THEN "abandoned" ELSE pc
            /\ UNCHANGED <<main_pc, exit_status>>
    /\ UNCHANGED <<doc, page_dominant_font_sizes, title, title_span,
                   heading_candidates, next_candidate, final_outline,
                   outline_src, seen_entries, result>>
    /\ UNCHANGED <<input_exists, pdf_files, file_index, results, ps_result,
                   error_msg, output, main_ret>>

\* lines 114-118
ExceptTimeout ==
    /\ ps_pc = "except_timeout"
    /\ alarm' = FALSE
    /\ error_msg' = "timeout"
    /\ ps_pc' = "error_save"
    /\ UNCHANGED <<input_exists, pdf_files, main_pc, file_index, results,
                   ps_result, output, main_ret, exit_status>>
    /\ UNCHANGED core_vars

\* lines 120-124
ExceptException ==
    /\ ps_pc = "except_exception"
    /\ alarm' = FALSE
    /\ error_msg' = "exception"
    /\ ps_pc' = "error_save"
    /\ UNCHANGED <<input_exists, pdf_files, main_pc, file_index, results,
                   ps_result, output, main_ret, exit_status>>
    /\ UNCHANGED core_vars

\* lines 126-139 and 232-239: the error result is written;
\* process_single_pdf returns (False, time, error_msg); main records it
SaveError ==
    /\ ps_pc = "error_save"
    /\ output' = [output EXCEPT ![file_index] =
                     [written |-> TRUE, title |-> <<>>, outline |-> <<>>,
                      error |-> error_msg]]
    /\ results' = Append(results, [success |-> FALSE, error |-> error_msg])
    /\ file_index' = file_index + 1
    /\ ps_pc' = "idle"
    /\ UNCHANGED <<input_exists, pdf_files, main_pc, alarm, ps_result,
                   error_msg, main_ret, exit_status>>
    /\ UNCHANGED core_vars

failed_count(rs) == Cardinality({k \in 1..Len(rs) : ~rs[k].success})

\* MainFinish returning 1 as soon as one document failed
MainFinish_FailOnAny ==
    /\ main_pc = "loop"
    /\ ps_pc = "idle"
    /\ file_index > Len(pdf_files)
    /\ main_pc' = "returned"
    /\ main_ret' = IF failed_count(results) > 0 THEN 1 ELSE 0
    /\ exit_status' = main_ret'
    /\ UNCHANGED <<input_exists, pdf_files, file_index, results, ps_pc, alarm,
                   ps_result, error_msg, output>>
    /\ UNCHANGED core_vars

\* lines 245-258 and 262-263: main returns its exit code
MainFinish ==
    /\ main_pc = "loop"
    /\ ps_pc = "idle"
    /\ file_index > Len(pdf_files)
    /\ main_pc' = "returned"
    /\ main_ret' = IF failed_count(results) = Len(results) THEN 1 ELSE 0
    /\ exit_status' = main_ret'
    /\ UNCHANGED <<input_exists, pdf_files, file_index, results, ps_pc, alarm,
                   ps_result, error_msg, output>>
    /\ UNCHANGED core_vars

BatchNext ==
    \/ MainStart
    \/ StartFile
    \/ SetupTimeout
    \/ Open
    \/ Profile
    \/ ExtractTitle
    \/ ExtractHeadings
    \/ AssembleStep
    \/ Return
    \/ ExtractReturned
    \/ ExtractRaised
    \/ ClearTimeout
    \/ SaveResult
    \/ TimeoutSignal
    \/ ExceptTimeout
    \/ ExceptException
    \/ SaveError
    \/ MainFinish

\* the most PDF files the input directory holds
MaxFiles == 3

\* a scanned document: one page without any text
ScannedDoc ==
    [fault |-> "none", meta |-> NoMeta,
     pages |-> <<[height |-> 800, width |-> PAGE_WIDTH]>>, spans |-> <<>>]

\* a page with a large bold heading and a smaller one below it
HeadingDoc ==
    [fault |-> "none", meta |-> NoMeta,
     pages |-> <<[height |-> 800, width |-> PAGE_WIDTH]>>,
     spans |-> <<[text |-> T_Introduction, size |-> 24, bold |-> TRUE,
                  page |-> 1, x0 |-> 200, x1 |-> 400, y_pos |-> 100],
                 [text |-> T_Report, size |-> 12, bold |-> FALSE,
                  page |-> 1, x0 |-> 200, x1 |-> 400, y_pos |-> 200]>>]

BatchDocs == {UndecodableDoc, CorruptPageDoc, ScannedDoc, HeadingDoc}

BatchInit ==
    /\ input_exists \in BOOLEAN
    /\ \E n \in 0..MaxFiles :
        /\ pdf_files \in [1..n -> BatchDocs]
        /\ output = [k \in 1..n |-> NoOutput]
    /\ ~input_exists => pdf_files = <<>>
    /\ main_pc = "start"
    /\ file_index = 1
    /\ results = <<>>
    /\ ps_pc = "idle"
    /\ alarm = FALSE
    /\ ps_result = NoResult
    /\ error_msg = "none"
    /\ main_ret = -1
    /\ exit_status = -1
    /\ doc = ScannedDoc
    /\ pc = "idle"
    /\ page_dominant_font_sizes = <<>>
    /\ title = <<>>
    /\ title_span = 0
    /\ heading_candidates = <<>>
    /\ next_candidate = 1
    /\ final_outline = <<>>
    /\ outline_src = <<>>
    /\ seen_entries = {}
    /\ result = NoResult

BatchSpec == BatchInit /\ [][BatchNext]_vars

(***************************************************************************)
(* Claims about extract_outline                                            *)
(***************************************************************************)
Finished == pc = "done"

Scored == pc \in {"assemble", "done"}

\* the spans the entries of the outline came from
OutlineSpans == {outline_src[k].span : k \in 1..Len(outline_src)}

PositionLeq(a, b) ==
    a.page < b.page \/ (a.page = b.page /\ a.y_pos <= b.y_pos)

\* C1: at every point of the assembly and in the returned outline, the
\* entries stand in non-decreasing order of (page, y position) of the
\* fragments they came from; the entries are the level, text and page of
\* those fragments.
C1_OutlineOrdered ==
    /\ Len(outline_src) = Len(final_outline)
    /\ \A i \in 1..Len(outline_src) : \A j \in i..Len(outline_src) :
        PositionLeq(outline_src[i], outline_src[j])
    /\ \A i \in 1..Len(final_outline) :
        /\ final_outline[i].page = doc.spans[outline_src[i].span].page
        /\ outline_src[i].y_pos = doc.spans[outline_src[i].span].y_pos
    /\ Finished => result.outline = final_outline

\* C1 witness: a returned outline of two entries of one page whose
\* fragments the decoder delivered in the opposite order
C1_Witness ==
    /\ Finished
    /\ \E i \in 1..Len(outline_src) : \E j \in 1..Len(outline_src) :
        /\ i < j
        /\ outline_src[i].page = outline_src[j].page
        /\ outline_src[i].y_pos < outline_src[j].y_pos
        /\ outline_src[i].span > outline_src[j].span

\* C2, as claimed: two accepted entries of one page are never similar in
\* text (edit distance below 0.2 of the longer) while the level of one
\* dominates the level of the other.
C2_RedundancyBound ==
    \A i \in 1..Len(final_outline) : \A j \in 1..Len(final_outline) :
        ( /\ i # j
          /\ final_outline[i].page = final_outline[j].page
          /\ similar_text(final_outline[i].text, final_outline[j].text) )
        => ~level_dominates(final_outline[i].level, final_outline[j].level)

\* C3, as claimed: of an H1 and an H2 candidate of one page with the same
\* text ignoring case and vertical positions less than 10 apart, the
\* returned outline holds the H1 and not the H2.
C3_H1Survives ==
    Finished =>
        \A a \in 1..Len(heading_candidates) :
        \A b \in 1..Len(heading_candidates) :
            ( /\ heading_candidates[a].level = "H1"
              /\ heading_candidates[b].level = "H2"
              /\ heading_candidates[a].page = heading_candidates[b].page
              /\ lower(heading_candidates[a].text)
                     = lower(heading_candidates[b].text)
              /\ Abs(heading_candidates[a].y_pos
                     - heading_candidates[b].y_pos) < 10 )
            => /\ heading_candidates[a].span \in OutlineSpans
               /\ heading_candidates[b].span \notin OutlineSpans

\* the metadata title is non-empty after trimming and not the junk title
ValidMetaTitle ==
    /\ doc.meta.present
    /\ strip(doc.meta.title) # <<>>
    /\ strip(doc.meta.title) # JunkTitle

TitleDecided == pc \in {"headings", "assemble", "done"}

\* C4: with a valid metadata title, the title is the trimmed metadata title
\* from the title step on and in the Result, whatever the spans are.
C4_MetadataTitleWins ==
    ValidMetaTitle =>
        /\ TitleDecided => title = strip(doc.meta.title) /\ title_span = 0
        /\ Finished => result.title = strip(doc.meta.title)

\* C4 witness: a returned Result with an untrimmed valid metadata title on a
\* document whose spans yield a different heuristic title
C4_Witness ==
    /\ Finished
    /\ ValidMetaTitle
    /\ doc.meta.title # strip(doc.meta.title)
    /\ heuristic_title(doc, page_dominant_font_sizes).span # 0
    /\ heuristic_title(doc, page_dominant_font_sizes).text # result.title

\* C5, as claimed: a decodable document without any span ends with the
\* Result of an empty title and an empty outline.
C5_EmptyDocEmptyResult ==
    (doc.fault = "none" /\ doc.spans = <<>> /\ pc \in {"done", "raised"})
        => result = [status |-> "returned", title |-> <<>>, outline |-> <<>>]

\* C5, amended: a decodable document without any span never raises, runs on
\* until it returns, and returns an empty outline and as title the trimmed
\* metadata title when that is valid, the empty string otherwise.
C5_EmptyDocResult ==
    (doc.fault = "none" /\ doc.spans = <<>>) =>
        /\ pc # "raised"
        /\ ~Finished => ENABLED ExtractNext
        /\ Finished =>
            result = [status |-> "returned",
                      title |-> IF ValidMetaTitle THEN strip(doc.meta.title)
                                ELSE <<>>,
                      outline |-> <<>>]

\* C5 witness: documents of one or more pages without a span have returned,
\* here one with a valid metadata title
C5_Witness ==
    /\ Finished
    /\ doc.spans = <<>>
    /\ NumPages(doc) >= 1
    /\ ValidMetaTitle
    /\ result.title # <<>>

\* the spans whose trimmed text matches an ignore pattern
IgnoredSpans ==
    {i \in 1..Len(doc.spans) : MatchesIgnorePattern(strip(doc.spans[i].text))}

\* C6: a span whose text matches an ignore pattern is never the source of
\* an outline entry nor of the title, and neither an entry nor a
\* heuristic title carries such a text.
C6_IgnoredNeverEmitted ==
    /\ OutlineSpans \cap IgnoredSpans = {}
    /\ title_span \notin IgnoredSpans
    /\ \A k \in 1..Len(final_outline) :
        ~MatchesIgnorePattern(final_outline[k].text)
    /\ title_span # 0 => ~MatchesIgnorePattern(title)

\* C6 witness: a returned document whose first span is the ignored line,
\* large, bold and centred, and that has a heuristic title and an outline
C6_Witness ==
    /\ Finished
    /\ 1 \in IgnoredSpans
    /\ doc.spans[1].bold
    /\ \A i \in 1..Len(doc.spans) : doc.spans[i].size <= doc.spans[1].size
    /\ title_span # 0
    /\ final_outline # <<>>

\* C7, as claimed: on a page with a positive dominant size the font score
\* of a candidate is the one the multipliers give (so no candidate is
\* smaller than h3_font_size_multiplier times the dominant size), and on
\* a page with dominant size 0 it is the one the absolute thresholds give.
C7_ThresholdsOnlyWithoutDominant ==
    Scored =>
        \A k \in 1..Len(heading_candidates) :
            LET c == heading_candidates[k]
                dominant_size == page_dominant_font_sizes[c.page]
            IN  IF dominant_size > 0
                THEN /\ c.font_score = relative_font_score(c.font_size, dominant_size)
                     /\ 10 * c.font_size >= dominant_size * h3_font_size_multiplier_10
                ELSE c.font_score = absolute_font_score(c.font_size)

(***************************************************************************)
(* Claims about the batch driver                                           *)
(***************************************************************************)
\* process_single_pdf is over for file k: it returned or was left by an
\* exception
ProcessingOver(k) ==
    k < file_index \/ (k = file_index /\ ps_pc = "escaped")

ErrorShaped(o) ==
    o.written /\ o.title = <<>> /\ o.outline = <<>> /\ o.error # "none"

\* C8, as claimed: no failure of a document leaves process_single_pdf
\* otherwise than by its failure tuple, and once the run is over every
\* document of the batch has been processed and recorded.
C8_FailureContained ==
    /\ ps_pc # "escaped"
    /\ main_pc # "aborted"
    /\ (input_exists /\ exit_status # -1) => Len(results) = Len(pdf_files)

\* C9: the value main returns is 1 exactly when there was a document and
\* every document failed (its output is the error result), and 0 when
\* some failed, when none failed and when there was no PDF; main returns
\* only after every document was processed.
C9_ExitStatus ==
    main_ret # -1 =>
        LET failed == {k \in 1..Len(pdf_files) : output[k].error # "none"}
        IN  /\ \A k \in 1..Len(pdf_files) : output[k].written
            /\ Len(results) = Len(pdf_files)
            /\ main_ret = IF pdf_files # <<>> /\ failed = 1..Len(pdf_files)
                          THEN 1 ELSE 0
            /\ exit_status = main_ret

\* C9 witness: main has returned 0 from a batch of which one document timed
\* out and another succeeded
C9_Witness ==
    /\ main_ret = 0
    /\ \E k \in 1..Len(pdf_files) : output[k].error = "timeout"
    /\ \E k \in 1..Len(pdf_files) : output[k].written /\ output[k].error = "none"

\* C10, as claimed: once process_single_pdf is over for a document, it has
\* reported success or failure; after a failure the output of the document
\* is the error result (empty title, empty outline, a message), and the
\* output is a Result only after success, and then the whole Result of
\* the document.
C10_FailurePersisted ==
    \A k \in 1..Len(pdf_files) :
        ProcessingOver(k) =>
            /\ k <= Len(results)
            /\ IF results[k].success
               THEN /\ pdf_files[k].fault = "none"
                    /\ output[k] =
                        [written |-> TRUE,
                         title |-> extract_outline(pdf_files[k]).title,
                         outline |-> extract_outline(pdf_files[k]).outline,
                         error |-> "none"]
               ELSE ErrorShaped(output[k])

(***************************************************************************)
(* Claims about levels, the seen keys and the title filter                 *)
(***************************************************************************)
\* C11, as claimed: the level of every heading candidate is the one its
\* font_score stands for: H1 with 3, H2 with 2, H3 with 1.
C11_LevelAgreesWithFontScore ==
    Scored =>
        \A k \in 1..Len(heading_candidates) :
            LET c == heading_candidates[k]
            IN  /\ c.level = "H1" <=> c.font_score = 3
                /\ c.level = "H2" <=> c.font_score = 2
                /\ c.level = "H3" <=> c.font_score = 1

\* the outline and the seen keys when the loop of line 325 reaches the
\* k-th candidate
AssemblyBefore(k) ==
    assemble([final_outline |-> <<>>, outline_src |-> <<>>,
              seen_entries |-> {}],
             SubSeq(heading_candidates, 1, k - 1))

\* the k-th candidate was unseen and found redundant
DroppedRedundant(k) ==
    /\ dedup_key(heading_candidates[k]) \notin AssemblyBefore(k).seen_entries
    /\ is_redundant(AssemblyBefore(k).final_outline, heading_candidates[k])

\* C12, as claimed: the key of a candidate dropped as redundant is among
\* the seen keys from then on, and no later candidate with that key is
\* the source of an outline entry.
C12_SeenKeyRecorded ==
    Scored =>
        \A a \in 1..(next_candidate - 1) :
            DroppedRedundant(a) =>
                /\ dedup_key(heading_candidates[a]) \in seen_entries
                /\ \A b \in (a + 1)..Len(heading_candidates) :
                    dedup_key(heading_candidates[b])
                        = dedup_key(heading_candidates[a])
                    => heading_candidates[b].span \notin OutlineSpans

\* C13: at every point of the assembly and in the returned outline, the
\* entries come from candidates of pairwise different keys (lowercase
\* text, page, round(y / 10)), and the seen keys are the keys of the
\* entries.
C13_OneEntryPerKey ==
    /\ \A i \in 1..Len(outline_src) : \A j \in 1..Len(outline_src) :
        i # j => dedup_key(outline_src[i]) # dedup_key(outline_src[j])
    /\ seen_entries = {dedup_key(outline_src[i]) : i \in 1..Len(outline_src)}
    /\ Finished => Len(result.outline) = Len(outline_src)

\* C13 witness: a returned outline with an entry whose key a second
\* candidate shares; the second is not redundant and is left out all the
\* same
C13_Witness ==
    /\ Finished
    /\ \E a \in 1..Len(heading_candidates) :
       \E b \in 1..Len(heading_candidates) :
        /\ a # b
        /\ dedup_key(heading_candidates[a]) = dedup_key(heading_candidates[b])
        /\ heading_candidates[a].y_pos # heading_candidates[b].y_pos
        /\ heading_candidates[a].span \in OutlineSpans
        /\ heading_candidates[b].span \notin OutlineSpans
        /\ ~is_redundant(final_outline, heading_candidates[b])

\* the title candidates in the order the filter of line 179 visits them
VisitedTitleCandidates ==
    sort_title_candidates(title_candidates_of(doc, page_dominant_font_sizes))

\* the candidates c and e are on one page, less than
\* line_height_threshold_ratio times the font size of c apart, and their
\* lowercased texts less than 0.3 of the longer apart
NearDuplicateTitle(c, e) ==
    /\ c.page = e.page
    /\ 10 * Abs(c.y_pos - e.y_pos)
          < line_height_threshold_ratio_10 * c.font_size
    /\ 10 * edit_distance(lower(c.text), lower(e.text))
          < 3 * Max2(Len(c.text), Len(e.text))

\* KeptTitle(L)[k]: the k-th of the visited candidates L has no
\* near-duplicate among the kept candidates visited before it
KeptTitle(L) ==
    LET kept[k \in 1..Len(L)] ==
            ~\E j \in 1..(k - 1) : NearDuplicateTitle(L[k], L[j]) /\ kept[j]
    IN  kept

KeptTitleSpans(L) ==
    LET kept == KeptTitle(L)
    IN  {L[k].span : k \in {i \in 1..Len(L) : kept[i]}}

\* C14: when the title step has run, the title filter has visited every
\* title candidate once, in descending order of (font_size,
\* position_score, is_bold); it has kept exactly the candidates without a
\* near-duplicate among those kept before; and a heuristic title is the
\* text of a kept candidate, up to the Result.
C14_TitleFilter ==
    /\ pc = "headings" =>
        LET C == title_candidates_of(doc, page_dominant_font_sizes)
            L == sort_title_candidates(C)
            KS == KeptTitleSpans(L)
            IsKept(c) == c.span \in KS
        IN  /\ Len(L) = Len(C)
            /\ {L[k].span : k \in 1..Len(L)} = {C[k].span : k \in 1..Len(C)}
            /\ \A i \in 1..Len(L) : \A j \in i..Len(L) :
                ~TitleKeyGreater(L[j], L[i])
            /\ filter_title_candidates(L, <<>>) = SelectSeq(L, IsKept)
            /\ ~ValidMetaTitle =>
                IF L = <<>> THEN title_span = 0 /\ title = <<>>
                ELSE title_span \in KS
    /\ (TitleDecided /\ title_span # 0) =>
        title = strip(doc.spans[title_span].text)
    /\ Finished => result.title = title

\* C14 witness: a title was chosen where one candidate was dropped as the
\* near-duplicate of a kept one and a smaller candidate of the same page
\* and text was kept, being far enough from the kept ones for its size
C14_Witness ==
    /\ TitleDecided
    /\ title_span # 0
    /\ LET L == VisitedTitleCandidates
           kept == KeptTitle(L)
       IN  \E i \in 1..Len(L) : \E j \in 1..Len(L) : \E k \in 1..Len(L) :
            /\ i < j /\ i < k
            /\ L[i].page = L[j].page /\ L[i].page = L[k].page
            /\ L[i].text = L[k].text
            /\ L[k].font_size < L[i].font_size
            /\ kept[i] /\ ~kept[j] /\ kept[k]

\* C15, as claimed: a span that passes the text filters is a heading
\* candidate exactly when its font_score is positive with the minimum
\* size gate of the fallback taken against the height of its own page,
\* and that is the font_score of the candidate.
C15_GateUsesOwnPageHeight ==
    Scored =>
        \A i \in 1..Len(doc.spans) :
            LET s == doc.spans[i]
                own == font_score_of(s.size, page_dominant_font_sizes[s.page],
                                     doc.pages[s.page].height)
            IN  passes_basic_filters(strip(s.text)) =>
                    /\ (own > 0) <=>
                           (\E k \in 1..Len(heading_candidates) :
                                heading_candidates[k].span = i)
                    /\ \A k \in 1..Len(heading_candidates) :
                           heading_candidates[k].span = i
                               => heading_candidates[k].font_score = own

====
